---- MODULE Spec2Model ----
(***************************************************************************)
(* State-machine model of background_lightshow.py: the __main__ block,     *)
(* run_rain_pattern (the rain scheduler loop with its two exception       *)
(* handlers and its finally clause) and clear_all_pads (the drain step).   *)
(*                                                                         *)
(* Time is counted in milliseconds: INTERVAL_SECONDS = 0.05 s is 50 and    *)
(* LIGHT_DURATION = 0.5 s is 500.  time.time() is taken to be monotonic    *)
(* and time.sleep(s) to suspend for at least s.                            *)
(*                                                                         *)
(* port.send either succeeds (the message is appended to `sent`) or raises *)
(* an Exception (nothing is appended).  A KeyboardInterrupt can be raised  *)
(* at any statement of run_rain_pattern and of clear_all_pads; interrupts  *)
(* of the __main__ block outside run_rain_pattern are not modelled.        *)
(***************************************************************************)
EXTENDS Integers, Sequences, FiniteSets

\* ------------------------------------------------------------------ bounds
MaxTicks == 3
NumPadChoices == 2
MaxPorts == 2
MaxRainTicks == 11

\* ------------------------------------------------------- program constants
INTERVAL_SECONDS == 50
LIGHT_DURATION == 500
PAD_NOTES == [i \in 1..16 |-> 35 + i]
\* a palette whose last color is coded 0
COLOR_VELOCITIES_WhiteOff == <<5, 13, 21, 56, 60, 64, 80, 0>>
COLOR_VELOCITIES == <<5, 13, 21, 56, 60, 64, 80, 127>>

Range(s) == {s[i] : i \in DOMAIN s}

\* The values random.choice is let to return in the model: the first
\* NumPadChoices - 1 pads and the last pad; one color of the palette (the
\* color is only passed on to port.send, no branch depends on it).
PadChoices ==
    {PAD_NOTES[i] : i \in 1..(NumPadChoices - 1)} \cup {PAD_NOTES[Len(PAD_NOTES)]}
ColorChoices == {COLOR_VELOCITIES[Len(COLOR_VELOCITIES)]}

\* Elapsed time between the time.time() readings of two consecutive ticks:
\* the sleep of INTERVAL_SECONDS is a lower bound.  With these two values a
\* pad can be chosen again before its expiry, an expiry can fall exactly on
\* a tick or strictly between two ticks, and two pads can expire in one scan.
SleepDurations == {LIGHT_DURATION \div 2, LIGHT_DURATION}

\* ticks that follow each other faster than time.sleep allows
RainSleepDurationsShort == {INTERVAL_SECONDS \div 2}

\* The fastest the loop can tick: nothing but the sleep of INTERVAL_SECONDS
\* between two readings of the clock.
RainSleepDurations == {INTERVAL_SECONDS}

\* ------------------------------------------------------------- port names
\* A port name is the sequence of its words; `x in lower_name` holds when x
\* is one of the words of the lowered name ("MIDI 2" counts as one word).
DEFAULT_PORT == <<"Launchkey", "25", "MK2", "MIDI 2">>

\* None, or a name still unbound
NoName == <<>>

\* str.lower() on one word
LowerWord(w) ==
    CASE w = "Launchkey" -> "launchkey"
      [] w = "LAUNCHKEY" -> "launchkey"
      [] w = "MK2" -> "mk2"
      [] w = "MIDI 1" -> "midi 1"
      [] w = "MIDI 2" -> "midi 2"
      [] w = "InControl" -> "incontrol"
      [] w = "loopMIDI" -> "loopmidi"
      [] w = "Custom" -> "custom"
      [] OTHER -> w

\* name.lower()
Lower(name) == [i \in DOMAIN name |-> LowerWord(name[i])]

\* 'launchkey' in lower_name and
\*     ('midi 2' in lower_name or 'incontrol' in lower_name)
IsLedPort(name) ==
    LET lower_name == Lower(name)
    IN  /\ "launchkey" \in Range(lower_name)
        /\ ("midi 2" \in Range(lower_name) \/ "incontrol" \in Range(lower_name))

\* the for loop of lines 48-53: the first matching name, or None
FirstLedPort(names) ==
    LET hits == {i \in DOMAIN names : IsLedPort(names[i])}
    IN  IF hits = {} THEN NoName
        ELSE names[CHOOSE i \in hits : \A j \in hits : i <= j]

\* the names the model lets the platform enumerate
PortNames ==
    { <<"Launchkey", "MK2", "MIDI 1">>,
      <<"Launchkey", "MK2", "MIDI 2">>,
      <<"LAUNCHKEY", "InControl">>,
      <<"loopMIDI", "MIDI 2">> }

\* the results of mido.get_output_names(): it raises, or returns up to
\* MaxPorts names
OutputNames ==
    {[ok |-> FALSE, names |-> <<>>]} \cup
    {[ok |-> TRUE, names |-> l] :
        l \in UNION {[1..n -> PortNames] : n \in 0..MaxPorts}}

\* config.json: missing; present but open() raises; not JSON; JSON but not
\* an object (config.get raises); an object without the key; an object with
\* the key set to a name; an object with the key set to null
ConfigFiles ==
    {[kind |-> k, name |-> NoName] :
        k \in {"missing", "unreadable", "unparsable", "not_an_object",
               "no_key", "key_null"}} \cup
    {[kind |-> "has_key", name |-> n] :
        n \in {<<"Custom", "MIDI 1">>, DEFAULT_PORT}}

VARIABLES
    pc,              \* position of the single thread of control
    port,            \* "none" | "open" | "closed": output_port
    active_lights,   \* the dict, as its insertion-ordered sequence of items
    now,             \* local `now` of the current tick
    notes_to_clear,  \* local list of the expiry scan
    random_note,     \* local, 0 while unbound
    random_velocity, \* local, 0 while unbound
    note_idx,        \* position of clear_all_pads' for loop in PAD_NOTES
    pending,         \* exception in flight: "none" | "KeyboardInterrupt" | "Exception" | "ValueError"
    reports,         \* set of messages printed by the handlers
    sent,            \* messages port.send has accepted, in order
    ticks,           \* number of loop iterations started
    loopExit,        \* why the while loop stopped: "none" | "interrupt" | "error"
    exitAt,          \* Len(sent) when the while loop stopped, -1 before
    drainStart,      \* Len(sent) when clear_all_pads was called, -1 before
    interrupts,      \* number of KeyboardInterrupts raised so far (at most 3)
    lights_at_scan,  \* active_lights as the expiry scan of the current tick found it
    config_file,     \* config.json on disk: [kind |-> ...] (see ConfigFiles)
    output_names,    \* what mido.get_output_names() returns, or "error" if it raises
    disk_writable,   \* whether config.json can be written
    detected_port,   \* local of auto_detect_and_save_port, NoName for None
    MIDI_PORT_NAME   \* the resolved name, NoName while unbound

vars == <<pc, port, active_lights, now, notes_to_clear, random_note,
          random_velocity, note_idx, pending, reports, sent, ticks,
          loopExit, exitAt, drainStart, interrupts, lights_at_scan,
          config_file, output_names, disk_writable, detected_port,
          MIDI_PORT_NAME>>

\* the variables of the port name resolution
portVars == <<config_file, output_names, disk_writable, detected_port,
              MIDI_PORT_NAME>>

\* the variables of __main__ after the resolution, of run_rain_pattern and
\* of clear_all_pads
showVars == <<port, active_lights, now, notes_to_clear, random_note,
              random_velocity, note_idx, sent, ticks, loopExit, exitAt,
              drainStart, interrupts, lights_at_scan>>

\* ------------------------------------------------------- dict operations
Item(k, v) == [note |-> k, expiry |-> v]

Keys(d) == {d[i].note : i \in DOMAIN d}

\* active_lights[k] = v with every pad appended as a new item
SetItemAppend(d, k, v) == Append(d, Item(k, v))

\* active_lights[k] = v keeping the earlier expiry of a tracked pad
SetItemKeep(d, k, v) ==
    IF k \in Keys(d) THEN d ELSE Append(d, Item(k, v))

\* active_lights = {k: v}: the other entries are dropped
SetItemReset(d, k, v) == <<Item(k, v)>>

\* active_lights[k] = v: overwrite in place, or insert at the end
SetItem(d, k, v) ==
    IF k \in Keys(d)
    THEN [i \in DOMAIN d |-> IF d[i].note = k THEN Item(k, v) ELSE d[i]]
    ELSE Append(d, Item(k, v))

\* a del that removes nothing
DelItemNoop(d, k) == d

\* active_lights.clear() in place of the del
DelItemAll(d, k) == <<>>

\* del active_lights[k]
DelItem(d, k) == SelectSeq(d, LAMBDA e : e.note # k)

\* the scan with now > expiry_time
ExpiredNotesStrict(d, t) ==
    LET due == SelectSeq(d, LAMBDA e : t > e.expiry)
    IN  [i \in DOMAIN due |-> due[i].note]

\* [note for note, expiry_time in active_lights.items() if now >= expiry_time]
ExpiredNotes(d, t) ==
    LET due == SelectSeq(d, LAMBDA e : t >= e.expiry)
    IN  [i \in DOMAIN due |-> due[i].note]

\* mido.Message('note_on', channel=MIDI_CHANNEL, note=note, velocity=velocity),
\* stamped with the `now` of the tick in which port.send was called
Msg(n, v) == [note |-> n, velocity |-> v, at |-> now]

\* ------------------------------------------------------- control transfers
LoopPcs == {"scan", "clear", "del", "pick", "light", "track", "sleep"}

\* where a send failure in the try body goes, with the loop continuing instead
OnSendErrorContinue == "sleep"
\* where a send failure in the try body goes: except Exception
OnSendError == "except_Exception"

\* where a KeyboardInterrupt in the try body goes, caught by the wrong clause
OnInterruptAsError == "except_Exception"
\* where a KeyboardInterrupt in the try body goes: except KeyboardInterrupt
OnInterrupt == "except_KeyboardInterrupt"

\* a handler that leaves the function without the finally clause
AfterHandlerReturn == "rrp_exit"
\* after a handler: the finally clause
AfterHandler == "finally"

\* a failing open_output after which the light show is run anyway
OnOpenErrorRun == "scan"
\* where a failing open_output goes: the except clauses of __main__
OnOpenError == "main_except"

\* a failing write of config.json that is not caught
OnSaveErrorRaise == "load_raised"
\* where a failing write of config.json goes: caught in save_midi_port_name,
\* auto_detect_and_save_port goes on to its return
OnSaveError == "loaded"

\* clear_all_pads over the tracked pads only
DrainNotesTracked ==
    SelectSeq(PAD_NOTES, LAMBDA n : n \in Keys(active_lights))
\* the list clear_all_pads iterates over
DrainNotes == PAD_NOTES

\* ------------------------------------------------------------------- Init
\* the variables of the light show before mido.open_output is called
ShowInit ==
    /\ port = "none"
    /\ active_lights = <<>>
    /\ now = 0
    /\ notes_to_clear = <<>>
    /\ random_note = 0
    /\ random_velocity = 0
    /\ note_idx = 0
    /\ pending = "none"
    /\ reports = {}
    /\ sent = <<>>
    /\ ticks = 0
    /\ loopExit = "none"
    /\ exitAt = -1
    /\ drainStart = -1
    /\ interrupts = 0
    /\ lights_at_scan = <<>>

\* load_midi_port_name() has returned the configured name and __main__ is
\* about to open the port
Init ==
    /\ pc = "open"
    /\ ShowInit
    /\ config_file = [kind |-> "has_key", name |-> DEFAULT_PORT]
    /\ output_names = [ok |-> TRUE, names |-> <<>>]
    /\ disk_writable = TRUE
    /\ detected_port = NoName
    /\ MIDI_PORT_NAME = DEFAULT_PORT

\* __main__ is about to call load_midi_port_name(), in any environment
InitPort ==
    /\ pc = "load"
    /\ ShowInit
    /\ config_file \in ConfigFiles
    /\ output_names \in OutputNames
    /\ disk_writable \in BOOLEAN
    /\ detected_port = NoName
    /\ MIDI_PORT_NAME = NoName

\* ------------------------------------------------- load_midi_port_name
\* os.path.exists, open and json.load succeed:
\* return config.get('MIDI_PORT_NAME', DEFAULT_PORT)
LoadFromConfig ==
    /\ pc = "load"
    /\ config_file.kind \in {"has_key", "no_key", "key_null"}
    /\ MIDI_PORT_NAME' = IF config_file.kind = "no_key"
                         THEN DEFAULT_PORT ELSE config_file.name
    /\ reports' = reports \cup {"Configuration loaded"}
    /\ pc' = "loaded"
    /\ UNCHANGED <<config_file, output_names, disk_writable, detected_port,
                   pending>>
    /\ UNCHANGED showVars

\* open, json.load or config.get raises: except Exception, auto-detection
LoadConfigFails ==
    /\ pc = "load"
    /\ config_file.kind \in {"unreadable", "unparsable", "not_an_object"}
    /\ reports' = reports \cup {"Warning: Failed to read or parse"}
    /\ pc' = "auto_detect"
    /\ UNCHANGED <<pending>>
    /\ UNCHANGED portVars
    /\ UNCHANGED showVars

\* os.path.exists(CONFIG_FILE) is false: auto-detection
LoadConfigMissing ==
    /\ pc = "load"
    /\ config_file.kind = "missing"
    /\ pc' = "auto_detect"
    /\ UNCHANGED <<pending, reports>>
    /\ UNCHANGED portVars
    /\ UNCHANGED showVars

\* ------------------------------------------- auto_detect_and_save_port
\* mido.get_output_names() raises: return DEFAULT_PORT
EnumerateFails ==
    /\ pc = "auto_detect"
    /\ ~ output_names.ok
    /\ reports' = reports \cup {"Error accessing MIDI ports"}
    /\ MIDI_PORT_NAME' = DEFAULT_PORT
    /\ pc' = "loaded"
    /\ UNCHANGED <<config_file, output_names, disk_writable, detected_port,
                   pending>>
    /\ UNCHANGED showVars

\* the for loop finds a port: save_midi_port_name(detected_port) is called
DetectFound ==
    /\ pc = "auto_detect"
    /\ output_names.ok
    /\ FirstLedPort(output_names.names) # NoName
    /\ detected_port' = FirstLedPort(output_names.names)
    /\ pc' = "save"
    /\ UNCHANGED <<config_file, output_names, disk_writable, MIDI_PORT_NAME,
                   pending, reports>>
    /\ UNCHANGED showVars

\* the for loop finds no port: warning, return DEFAULT_PORT
DetectNone ==
    /\ pc = "auto_detect"
    /\ output_names.ok
    /\ FirstLedPort(output_names.names) = NoName
    /\ reports' = reports \cup {"WARNING: Launchkey LED Control Port Not Found"}
    /\ MIDI_PORT_NAME' = DEFAULT_PORT
    /\ pc' = "loaded"
    /\ UNCHANGED <<config_file, output_names, disk_writable, detected_port,
                   pending>>
    /\ UNCHANGED showVars

\* ------------------------------------------------- save_midi_port_name
\* config.json is written; return detected_port
SaveOk ==
    /\ pc = "save"
    /\ disk_writable
    /\ config_file' = [kind |-> "has_key", name |-> detected_port]
    /\ reports' = reports \cup {"SUCCESS: Configuration saved"}
    /\ MIDI_PORT_NAME' = detected_port
    /\ pc' = "loaded"
    /\ UNCHANGED <<output_names, disk_writable, detected_port, pending>>
    /\ UNCHANGED showVars

\* open(CONFIG_FILE, 'w') raises: except Exception prints the error and
\* auto_detect_and_save_port still returns detected_port
SaveFails ==
    /\ pc = "save"
    /\ ~ disk_writable
    /\ pc' = OnSaveError
    /\ IF pc' = "loaded"
       THEN /\ reports' = reports \cup {"CRITICAL ERROR: Could not write"}
            /\ MIDI_PORT_NAME' = detected_port
            /\ pending' = pending
       ELSE /\ pending' = "Exception"
            /\ UNCHANGED <<reports, MIDI_PORT_NAME>>
    /\ UNCHANGED <<config_file, output_names, disk_writable, detected_port>>
    /\ UNCHANGED showVars

NextPort ==
    \/ LoadFromConfig
    \/ LoadConfigFails
    \/ LoadConfigMissing
    \/ EnumerateFails
    \/ DetectFound
    \/ DetectNone
    \/ SaveOk
    \/ SaveFails

SpecPort == InitPort /\ [][NextPort]_vars

\* ------------------------------------------------------------- __main__
\* output_port = mido.open_output(MIDI_PORT_NAME) succeeds;
\* run_rain_pattern(output_port) is entered: active_lights = {}
OpenOk ==
    /\ pc = "open"
    /\ port' = "open"
    /\ pc' = "scan"
    /\ UNCHANGED <<active_lights, now, notes_to_clear, random_note,
                   random_velocity, note_idx, pending, reports, sent, ticks,
                   loopExit, exitAt, drainStart,
                   interrupts,
                   lights_at_scan>>
    /\ UNCHANGED portVars

\* mido.open_output raises (ValueError, or any other Exception)
OpenFail ==
    /\ pc = "open"
    /\ \E e \in {"ValueError", "Exception"} : pending' = e
    /\ pc' = OnOpenError
    /\ UNCHANGED <<port, active_lights, now, notes_to_clear, random_note,
                   random_velocity, note_idx, reports, sent, ticks,
                   loopExit, exitAt, drainStart, interrupts,
                   lights_at_scan>>
    /\ UNCHANGED portVars

\* ------------------------------------------------ run_rain_pattern: loop
\* now = time.time(); notes_to_clear = [...]
ScanStep(maxTicks, durations) ==
    /\ pc = "scan"
    /\ ticks < maxTicks
    /\ \E d \in durations :
          now' = IF ticks = 0 THEN 0 ELSE now + d
    /\ notes_to_clear' = ExpiredNotes(active_lights, now')
    /\ ticks' = ticks + 1
    /\ lights_at_scan' = active_lights
    /\ pc' = IF notes_to_clear' = <<>> THEN "pick" ELSE "clear"
    /\ UNCHANGED <<port, active_lights, random_note, random_velocity,
                   note_idx, pending, reports, sent, loopExit, exitAt,
                   drainStart,
                   interrupts>>
    /\ UNCHANGED portVars

Scan == ScanStep(MaxTicks, SleepDurations)

\* the same with every tick exactly INTERVAL_SECONDS after the one before
ScanRain == ScanStep(MaxRainTicks, RainSleepDurations)

\* send_led_message(port, note, 0) for the next note of notes_to_clear
ClearSend ==
    /\ pc = "clear"
    /\ sent' = Append(sent, Msg(Head(notes_to_clear), 0))
    /\ pc' = "del"
    /\ UNCHANGED <<port, active_lights, now, notes_to_clear, random_note,
                   random_velocity, note_idx, pending, reports, ticks,
                   loopExit, exitAt, drainStart,
                   interrupts,
                   lights_at_scan>>
    /\ UNCHANGED portVars

\* del active_lights[note]
ClearDel ==
    /\ pc = "del"
    /\ active_lights' = DelItem(active_lights, Head(notes_to_clear))
    /\ notes_to_clear' = Tail(notes_to_clear)
    /\ pc' = IF notes_to_clear' = <<>> THEN "pick" ELSE "clear"
    /\ UNCHANGED <<port, now, random_note, random_velocity, note_idx,
                   pending, reports, sent, ticks, loopExit, exitAt,
                   drainStart,
                   interrupts,
                   lights_at_scan>>
    /\ UNCHANGED portVars

\* The pads the rain may choose at the current tick when it is to fill the
\* grid: the first pad again, or the pad that was chosen least recently.
RainPadChoices ==
    {PAD_NOTES[1], PAD_NOTES[((ticks - 1) % Len(PAD_NOTES)) + 1]}

\* random_note = random.choice(PAD_NOTES);
\* random_velocity = random.choice(COLOR_VELOCITIES)
PickStep(pads) ==
    /\ pc = "pick"
    /\ random_note' \in pads
    /\ random_velocity' \in ColorChoices
    /\ pc' = "light"
    /\ UNCHANGED <<port, active_lights, now, notes_to_clear, note_idx,
                   pending, reports, sent, ticks, loopExit, exitAt,
                   drainStart,
                   interrupts,
                   lights_at_scan>>
    /\ UNCHANGED portVars

Pick == PickStep(PadChoices)

\* the same with the pads of RainPadChoices
PickRain == PickStep(RainPadChoices)

\* send_led_message(port, random_note, random_velocity)
Light ==
    /\ pc = "light"
    /\ sent' = Append(sent, Msg(random_note, random_velocity))
    /\ pc' = "track"
    /\ UNCHANGED <<port, active_lights, now, notes_to_clear, random_note,
                   random_velocity, note_idx, pending, reports, ticks,
                   loopExit, exitAt, drainStart,
                   interrupts,
                   lights_at_scan>>
    /\ UNCHANGED portVars

\* active_lights[random_note] = LIGHT_DURATION
TrackNoNow ==
    /\ pc = "track"
    /\ active_lights' = SetItem(active_lights, random_note, LIGHT_DURATION)
    /\ pc' = "sleep"
    /\ UNCHANGED <<port, now, notes_to_clear, random_note, random_velocity,
                   note_idx, pending, reports, sent, ticks, loopExit, exitAt,
                   drainStart, interrupts, lights_at_scan>>
    /\ UNCHANGED portVars

\* active_lights[random_note] = now + LIGHT_DURATION
Track ==
    /\ pc = "track"
    /\ active_lights' = SetItem(active_lights, random_note, now + LIGHT_DURATION)
    /\ pc' = "sleep"
    /\ UNCHANGED <<port, now, notes_to_clear, random_note, random_velocity,
                   note_idx, pending, reports, sent, ticks, loopExit, exitAt,
                   drainStart,
                   interrupts,
                   lights_at_scan>>
    /\ UNCHANGED portVars

\* time.sleep(INTERVAL_SECONDS); the elapsed time shows in the next Scan
Sleep ==
    /\ pc = "sleep"
    /\ pc' = "scan"
    /\ UNCHANGED <<port, active_lights, now, notes_to_clear, random_note,
                   random_velocity, note_idx, pending, reports, sent, ticks,
                   loopExit, exitAt, drainStart,
                   interrupts,
                   lights_at_scan>>
    /\ UNCHANGED portVars

\* port.send raises after active_lights was updated for the message
SendFailInLoopAfterUpdate ==
    /\ pc \in {"clear", "light"}
    /\ active_lights' =
          IF pc = "clear"
          THEN DelItem(active_lights, Head(notes_to_clear))
          ELSE SetItem(active_lights, random_note, now + LIGHT_DURATION)
    /\ pending' = "Exception"
    /\ loopExit' = "error"
    /\ exitAt' = Len(sent)
    /\ pc' = OnSendError
    /\ UNCHANGED <<port, now, notes_to_clear, random_note, random_velocity,
                   note_idx, reports, sent, ticks, drainStart, interrupts,
                   lights_at_scan>>
    /\ UNCHANGED portVars

\* port.send raises inside the try body (off-event or on-event send)
SendFailInLoop ==
    /\ pc \in {"clear", "light"}
    /\ pending' = "Exception"
    /\ loopExit' = "error"
    /\ exitAt' = Len(sent)
    /\ pc' = OnSendError
    /\ UNCHANGED <<port, active_lights, now, notes_to_clear, random_note,
                   random_velocity, note_idx, reports, sent, ticks,
                   drainStart,
                   interrupts,
                   lights_at_scan>>
    /\ UNCHANGED portVars

\* Ctrl+C while the try body runs (any statement, the sleep included)
InterruptInLoop ==
    /\ pc \in LoopPcs
    /\ pending' = "KeyboardInterrupt"
    /\ interrupts' = interrupts + 1
    /\ loopExit' = "interrupt"
    /\ exitAt' = Len(sent)
    /\ pc' = OnInterrupt
    /\ UNCHANGED <<port, active_lights, now, notes_to_clear, random_note,
                   random_velocity, note_idx, reports, sent, ticks,
                   drainStart,
                   lights_at_scan>>
    /\ UNCHANGED portVars

\* -------------------------------------- run_rain_pattern: except / finally
\* except KeyboardInterrupt: print("\nStopping script...")
ExceptKeyboardInterrupt ==
    /\ pc = "except_KeyboardInterrupt"
    /\ reports' = reports \cup {"Stopping script..."}
    /\ pending' = "none"
    /\ pc' = AfterHandler
    /\ UNCHANGED <<port, active_lights, now, notes_to_clear, random_note,
                   random_velocity, note_idx, sent, ticks, loopExit, exitAt,
                   drainStart,
                   interrupts,
                   lights_at_scan>>
    /\ UNCHANGED portVars

\* except Exception as e: print("\nAn error occurred during pattern execution")
ExceptException ==
    /\ pc = "except_Exception"
    /\ reports' = reports \cup {"An error occurred during pattern execution"}
    /\ pending' = "none"
    /\ pc' = AfterHandler
    /\ UNCHANGED <<port, active_lights, now, notes_to_clear, random_note,
                   random_velocity, note_idx, sent, ticks, loopExit, exitAt,
                   drainStart,
                   interrupts,
                   lights_at_scan>>
    /\ UNCHANGED portVars

\* Ctrl+C while a handler runs: the handler is left with the new exception
\* in flight and the finally clause runs
InterruptInHandler ==
    /\ pc \in {"except_KeyboardInterrupt", "except_Exception"}
    /\ pending' = "KeyboardInterrupt"
    /\ interrupts' = interrupts + 1
    /\ pc' = "finally"
    /\ UNCHANGED <<port, active_lights, now, notes_to_clear, random_note,
                   random_velocity, note_idx, reports, sent, ticks, loopExit,
                   exitAt, drainStart,
                   lights_at_scan>>
    /\ UNCHANGED portVars

\* a drain whose for loop starts at the second pad
FinallySkipFirst ==
    /\ pc = "finally"
    /\ drainStart' = Len(sent)
    /\ note_idx' = 2
    /\ pc' = "drain"
    /\ UNCHANGED <<port, active_lights, now, notes_to_clear, random_note,
                   random_velocity, pending, reports, sent, ticks, loopExit,
                   exitAt, interrupts,
                   lights_at_scan>>
    /\ UNCHANGED portVars

\* finally: clear_all_pads(port) is called; print("Clearing all pads...")
Finally ==
    /\ pc = "finally"
    /\ drainStart' = Len(sent)
    /\ note_idx' = 1
    /\ pc' = "drain"
    /\ UNCHANGED <<port, active_lights, now, notes_to_clear, random_note,
                   random_velocity, pending, reports, sent, ticks, loopExit,
                   exitAt,
                   interrupts,
                   lights_at_scan>>
    /\ UNCHANGED portVars

\* -------------------------------------------------------- clear_all_pads
\* for note in PAD_NOTES: send_led_message(port, note, 0); after the last
\* note clear_all_pads returns and the finally clause ends
DrainSend ==
    /\ pc = "drain"
    /\ note_idx <= Len(DrainNotes)
    /\ sent' = Append(sent, Msg(DrainNotes[note_idx], 0))
    /\ note_idx' = note_idx + 1
    /\ UNCHANGED <<pc, port, active_lights, now, notes_to_clear, random_note,
                   random_velocity, pending, reports, ticks, loopExit, exitAt,
                   drainStart,
                   interrupts,
                   lights_at_scan>>
    /\ UNCHANGED portVars

\* the for loop is exhausted: clear_all_pads returns, the finally clause
\* ends and re-raises the exception in flight, if any
DrainEnd ==
    /\ pc = "drain"
    /\ note_idx > Len(DrainNotes)
    /\ pc' = "rrp_exit"
    /\ UNCHANGED <<port, active_lights, now, notes_to_clear, random_note,
                   random_velocity, note_idx, pending, reports, sent, ticks,
                   loopExit, exitAt, drainStart,
                   interrupts,
                   lights_at_scan>>
    /\ UNCHANGED portVars

\* port.send raises inside clear_all_pads: nothing catches it in
\* run_rain_pattern
SendFailInDrain ==
    /\ pc = "drain"
    /\ note_idx <= Len(DrainNotes)
    /\ pending' = "Exception"
    /\ pc' = "rrp_exit"
    /\ UNCHANGED <<port, active_lights, now, notes_to_clear, random_note,
                   random_velocity, note_idx, reports, sent, ticks, loopExit,
                   exitAt, drainStart,
                   interrupts,
                   lights_at_scan>>
    /\ UNCHANGED portVars

\* Ctrl+C while clear_all_pads runs
InterruptInDrain ==
    /\ pc = "drain"
    /\ note_idx <= Len(DrainNotes)
    /\ pending' = "KeyboardInterrupt"
    /\ interrupts' = interrupts + 1
    /\ pc' = "rrp_exit"
    /\ UNCHANGED <<port, active_lights, now, notes_to_clear, random_note,
                   random_velocity, note_idx, reports, sent, ticks, loopExit,
                   exitAt, drainStart,
                   lights_at_scan>>
    /\ UNCHANGED portVars

\* ------------------------------------------- __main__: except / finally
\* a KeyboardInterrupt out of run_rain_pattern that ends the process
\* without the finally clause of __main__
LeaveRainPatternNoFinally ==
    /\ pc = "rrp_exit"
    /\ pc' = IF pending \in {"Exception", "ValueError"} THEN "main_except"
             ELSE IF pending = "KeyboardInterrupt" THEN "done"
             ELSE "main_finally"
    /\ UNCHANGED <<port, active_lights, now, notes_to_clear, random_note,
                   random_velocity, note_idx, pending, reports, sent, ticks,
                   loopExit, exitAt, drainStart, interrupts, lights_at_scan>>
    /\ UNCHANGED portVars

\* run_rain_pattern has ended: it returns, or its exception reaches the
\* except clauses of __main__ (a KeyboardInterrupt is caught by neither)
LeaveRainPattern ==
    /\ pc = "rrp_exit"
    /\ pc' = IF pending \in {"Exception", "ValueError"}
             THEN "main_except" ELSE "main_finally"
    /\ UNCHANGED <<port, active_lights, now, notes_to_clear, random_note,
                   random_velocity, note_idx, pending, reports, sent, ticks,
                   loopExit, exitAt, drainStart,
                   interrupts,
                   lights_at_scan>>
    /\ UNCHANGED portVars

\* except ValueError: print("Error: Could not find or open the MIDI port ...")
\* except Exception as e: print("An unexpected error occurred during setup")
MainExcept ==
    /\ pc = "main_except"
    /\ reports' = reports \cup
          {IF pending = "ValueError"
           THEN "Error: Could not find or open the MIDI port"
           ELSE "An unexpected error occurred during setup"}
    /\ pending' = "none"
    /\ pc' = "main_finally"
    /\ UNCHANGED <<port, active_lights, now, notes_to_clear, random_note,
                   random_velocity, note_idx, sent, ticks, loopExit, exitAt,
                   drainStart,
                   interrupts,
                   lights_at_scan>>
    /\ UNCHANGED portVars

\* finally: if 'output_port' in locals() and output_port.opened:
\*              output_port.close()
MainFinally ==
    /\ pc = "main_finally"
    /\ port' = IF port = "open" THEN "closed" ELSE port
    /\ pc' = "done"
    /\ UNCHANGED <<active_lights, now, notes_to_clear, random_note,
                   random_velocity, note_idx, pending, reports, sent, ticks,
                   loopExit, exitAt, drainStart,
                   interrupts,
                   lights_at_scan>>
    /\ UNCHANGED portVars

Next ==
    \/ OpenOk
    \/ OpenFail
    \/ Scan
    \/ ClearSend
    \/ ClearDel
    \/ Pick
    \/ Light
    \/ Track
    \/ Sleep
    \/ SendFailInLoop
    \/ InterruptInLoop
    \/ ExceptKeyboardInterrupt
    \/ ExceptException
    \/ InterruptInHandler
    \/ Finally
    \/ DrainSend
    \/ DrainEnd
    \/ SendFailInDrain
    \/ InterruptInDrain
    \/ LeaveRainPattern
    \/ MainExcept
    \/ MainFinally

Spec == Init /\ [][Next]_vars

\* The main loop alone, with no failure and no interrupt, ticking every
\* INTERVAL_SECONDS for more than one LIGHT_DURATION.
NextRain ==
    \/ OpenOk
    \/ ScanRain
    \/ ClearSend
    \/ ClearDel
    \/ PickRain
    \/ Light
    \/ Track
    \/ Sleep

SpecRain == Init /\ [][NextRain]_vars

\* ------------------------------------------------------------- typing
TypeOK ==
    /\ pc \in LoopPcs \cup {"load", "auto_detect", "save", "loaded",
                            "load_raised",
                            "open", "except_KeyboardInterrupt",
                            "except_Exception", "finally", "drain",
                            "rrp_exit", "main_except", "main_finally", "done"}
    /\ port \in {"none", "open", "closed"}
    /\ pending \in {"none", "KeyboardInterrupt", "Exception", "ValueError"}
    /\ loopExit \in {"none", "interrupt", "error"}
    /\ ticks \in 0..(MaxTicks + MaxRainTicks)
    /\ note_idx \in 0..(Len(PAD_NOTES) + 1)
    /\ interrupts \in 0..3

\* ================================================================ claims
IsOn(m) == m.velocity > 0
IsOff(m) == m.velocity = 0

\* run_rain_pattern has ended (returned or raised)
Terminated == pc \in {"rrp_exit", "main_except", "main_finally", "done"}
              /\ port # "none"

\* clear_all_pads was called and its for loop ran to the end
DrainCompleted == drainStart >= 0 /\ note_idx > Len(DrainNotes)

\* the messages sent by the main loop are sent[1..LoopEnd], those of the
\* drain step sent[LoopEnd+1..]
LoopEnd == IF drainStart >= 0 THEN drainStart ELSE Len(sent)

\* every on-event in the log is followed by an off-event for the same pad
OffAfterEveryOn ==
    \A i \in DOMAIN sent :
        IsOn(sent[i]) =>
            \E j \in (i + 1)..Len(sent) :
                sent[j].note = sent[i].note /\ IsOff(sent[j])

C2_OverwriteSemantics ==
    /\ \A i \in 1..LoopEnd : \A j \in (i + 1)..LoopEnd :
          ( /\ IsOn(sent[i]) /\ IsOn(sent[j])
            /\ sent[i].note = sent[j].note
            /\ sent[j].at < sent[i].at + LIGHT_DURATION )
          => \A k \in (j + 1)..LoopEnd :
                (sent[k].note = sent[j].note /\ IsOff(sent[k]))
                => ~ ( /\ sent[i].at + LIGHT_DURATION <= sent[k].at
                       /\ sent[k].at < sent[j].at + LIGHT_DURATION )
    /\ ( /\ pc = "sleep"
         /\ \E i \in 1..(Len(sent) - 1) :
               /\ IsOn(sent[i])
               /\ sent[i].note = random_note
               /\ now < sent[i].at + LIGHT_DURATION )
       => /\ random_note \in Keys(active_lights)
          /\ \A e \in Range(active_lights) :
                e.note = random_note => e.expiry = now + LIGHT_DURATION

\* a pad lit at T1, lit again at T2 < T1 + LIGHT_DURATION, and a later tick
\* at a time in [T1 + LIGHT_DURATION, T2 + LIGHT_DURATION) whose expiry scan
\* is over and has left the pad tracked
C2_Witness ==
    /\ pc = "pick"
    /\ Len(sent) >= 2
    /\ IsOn(sent[1]) /\ IsOn(sent[2])
    /\ sent[1].note = sent[2].note
    /\ sent[2].at < sent[1].at + LIGHT_DURATION
    /\ sent[1].at + LIGHT_DURATION <= now
    /\ now < sent[2].at + LIGHT_DURATION
    /\ sent[1].note \in Keys(active_lights)

\* the off-events for all of PAD_NOTES, in order
AllOff == [i \in DOMAIN PAD_NOTES |-> [note |-> PAD_NOTES[i], velocity |-> 0]]

\* what the drain step has sent so far
DrainSent ==
    [i \in 1..(Len(sent) - drainStart) |->
        [note |-> sent[drainStart + i].note,
         velocity |-> sent[drainStart + i].velocity]]

\* C3: whatever active_lights tracks, the drain step sends off-events for
\* PAD_NOTES in order and nothing else: what it has sent is at every moment
\* a prefix of the 16 off-events for notes 36..51, and all 16 (one per pad)
\* once it has run to completion.
C3_DrainSendsOneOffPerPad ==
    drainStart >= 0 =>
        /\ Len(DrainSent) <= Len(AllOff)
        /\ DrainSent = SubSeq(AllOff, 1, Len(DrainSent))
        /\ (pc = "drain" => Len(DrainSent) = note_idx - 1)
        /\ (DrainCompleted => DrainSent = AllOff)

\* a completed drain that was started while exactly one pad was tracked
C3_Witness ==
    /\ pc = "rrp_exit"
    /\ DrainCompleted
    /\ Len(active_lights) = 1
    /\ Len(sent) = drainStart + 16

\* C4: the drain step is started on every exit path of the loop: once
\* run_rain_pattern has ended the loop was stopped by an interrupt or by a
\* send error, and clear_all_pads was called after the loop stopped.
C4_DrainOnEveryExitPath ==
    /\ Terminated =>
          /\ loopExit \in {"interrupt", "error"}
          /\ drainStart >= 0
          /\ drainStart = exitAt
    /\ (loopExit # "none") => pc \notin LoopPcs

\* run_rain_pattern has ended after a send error stopped the loop
C4_Witness ==
    /\ pc = "rrp_exit"
    /\ loopExit = "error"
    /\ drainStart >= 0

\* C5 as stated: a send failure inside clear_all_pads is not propagated:
\* run_rain_pattern never ends with that Exception in flight.
C5_DrainFailureNotPropagated ==
    ~ (pc = "rrp_exit" /\ pending = "Exception")

\* the off-events for pad p among sent[lo..hi]
OffsBetween(p, lo, hi) ==
    {k \in lo..hi : sent[k].note = p /\ IsOff(sent[k])}

\* sent[j] is the next on-event for the pad of sent[i]
NextOn(i, j) ==
    /\ i < j
    /\ IsOn(sent[i]) /\ IsOn(sent[j])
    /\ sent[i].note = sent[j].note
    /\ \A m \in (i + 1)..(j - 1) : ~ (IsOn(sent[m]) /\ sent[m].note = sent[i].note)

\* sent[i] is the last on-event for its pad
LastOn(i) ==
    /\ IsOn(sent[i])
    /\ \A m \in (i + 1)..Len(sent) : ~ (IsOn(sent[m]) /\ sent[m].note = sent[i].note)

\* C6 as stated: each on-event for pad P is followed by exactly one off-event
\* for P before the next on-event for P, and before the end of the run.
C6_ExactlyOneOffPerOn ==
    /\ \A i \in DOMAIN sent :
          IsOn(sent[i]) =>
              \A j \in (i + 1)..Len(sent) :
                  NextOn(i, j) =>
                      Cardinality(OffsBetween(sent[i].note, i + 1, j - 1)) = 1
    /\ pc = "done" =>
          \A i \in DOMAIN sent :
              LastOn(i) =>
                  Cardinality(OffsBetween(sent[i].note, i + 1, Len(sent))) = 1

\* C6 amended: between two consecutive on-events for pad P at most one
\* off-event for P is sent (none when P is lit again before its expiry), and
\* once the drain step has run to completion the last on-event for P is
\* followed by at most one off-event of the main loop and by exactly one
\* off-event of the drain step (one or two off-events in all, never zero).
C6_OffCountPerOn ==
    /\ \A i \in DOMAIN sent :
          IsOn(sent[i]) =>
              \A j \in (i + 1)..Len(sent) :
                  NextOn(i, j) =>
                      Cardinality(OffsBetween(sent[i].note, i + 1, j - 1)) <= 1
    /\ DrainCompleted =>
          \A i \in DOMAIN sent :
              LastOn(i) =>
                  /\ Cardinality(OffsBetween(sent[i].note, i + 1, LoopEnd)) <= 1
                  /\ Cardinality(OffsBetween(sent[i].note, LoopEnd + 1, Len(sent))) = 1

\* a completed drain in a run where one pad was lit twice with no off-event
\* in between and another on-event was followed by an off-event of the main
\* loop and one of the drain
C6_Witness ==
    /\ DrainCompleted
    /\ \E i \in 1..LoopEnd : \E j \in 1..LoopEnd :
          NextOn(i, j) /\ OffsBetween(sent[i].note, i + 1, j - 1) = {}
    /\ \E i \in 1..LoopEnd :
          LastOn(i) /\ Cardinality(OffsBetween(sent[i].note, i + 1, Len(sent))) = 2

\* C7: a send failure inside the main loop ends the loop for good: the loop
\* is never re-entered, and every message sent after the failed send is an
\* off-event of the drain step.
C7_NoRetryAfterSendFailure ==
    loopExit = "error" =>
        /\ pc \notin LoopPcs
        /\ Len(sent) > exitAt => drainStart = exitAt
        /\ \A k \in (exitAt + 1)..Len(sent) : IsOff(sent[k])

\* a send in the loop failed and the drain step has sent messages since
C7_Witness ==
    /\ loopExit = "error"
    /\ exitAt >= 1
    /\ Len(sent) > exitAt

\* C8: an interrupt raised in the main loop is not swallowed: the loop is
\* never re-entered and sends nothing more (all later messages are the
\* drain's off-events), the error report of run_rain_pattern is not printed,
\* the drain step has been started by the time run_rain_pattern ends, and
\* if no further interrupt arrives "Stopping script..." is printed and,
\* with the drain run to completion, run_rain_pattern returns with no
\* exception in flight.
C8_InterruptNotSwallowed ==
    loopExit = "interrupt" =>
        /\ pc \notin LoopPcs
        /\ Len(sent) > exitAt => drainStart = exitAt
        /\ \A k \in (exitAt + 1)..Len(sent) : IsOff(sent[k])
        /\ "An error occurred during pattern execution" \notin reports
        /\ pc = "rrp_exit" => drainStart >= 0
        /\ (pc = "rrp_exit" /\ interrupts = 1) =>
              /\ "Stopping script..." \in reports
              /\ DrainCompleted => pending = "none"

\* an interrupt arrived between the on-event send and the update of
\* active_lights, and run_rain_pattern has returned after a complete drain
C8_Witness ==
    /\ pc = "rrp_exit"
    /\ loopExit = "interrupt"
    /\ interrupts = 1
    /\ DrainCompleted
    /\ pending = "none"
    /\ exitAt >= 1
    /\ IsOn(sent[exitAt])
    /\ sent[exitAt].note \notin Keys(active_lights)

\* C9: active_lights has at most one entry per pad, all its keys are pad
\* notes, and it never holds more than Len(PAD_NOTES) = 16 entries.
C9_BoundedActiveSet ==
    /\ Cardinality(Keys(active_lights)) = Len(active_lights)
    /\ Keys(active_lights) \subseteq Range(PAD_NOTES)
    /\ Len(active_lights) <= Len(PAD_NOTES)
    /\ Len(active_lights) <= 16

\* a tracked pad was chosen again before its expiry and its entry has just
\* been overwritten: the dict still holds one entry for it
C9_Witness ==
    /\ pc = "sleep"
    /\ Len(active_lights) = 1
    /\ \E i \in 1..(Len(sent) - 1) :
          /\ IsOn(sent[i])
          /\ sent[i].note = random_note
          /\ now < sent[i].at + LIGHT_DURATION

\* open_output has failed
OpenFailed == pc # "open" /\ port = "none"

\* C10: when opening the port fails the scheduler is never entered: no
\* tick is run, clear_all_pads is not called and no message is ever sent;
\* the program goes through the except clause of __main__, where the error
\* is reported, and ends.
C10_OpenFailureSkipsScheduler ==
    OpenFailed =>
        /\ pc \in {"main_except", "main_finally", "done"}
        /\ sent = <<>>
        /\ ticks = 0
        /\ drainStart = -1
        /\ loopExit = "none"
        /\ pc \in {"main_finally", "done"} =>
              \/ "Error: Could not find or open the MIDI port" \in reports
              \/ "An unexpected error occurred during setup" \in reports

\* the process has ended after a failed open_output
C10_Witness ==
    /\ pc = "done"
    /\ port = "none"
    /\ reports # {}

\* the name auto_detect_and_save_port returns in the given environment
AutoDetected ==
    IF output_names.ok /\ \E i \in DOMAIN output_names.names :
                              IsLedPort(output_names.names[i])
    THEN output_names.names[
            CHOOSE i \in DOMAIN output_names.names :
                /\ IsLedPort(output_names.names[i])
                /\ \A j \in 1..(i - 1) : ~ IsLedPort(output_names.names[j])]
    ELSE DEFAULT_PORT

TickOffs == {k \in 1..LoopEnd : sent[k].at = now /\ IsOff(sent[k])}

\* C12: Expiry scan.  Once the scan of a tick is over (no send failed), every
\* entry it found with expiry <= now (boundary included) has got exactly one
\* off-event in this tick and is removed, every entry with expiry > now has
\* got none and is still tracked, no off-event went to any other pad, and no
\* tracked entry has expiry <= now.
C12_ExpiryScan ==
    pc \in {"pick", "light", "track"} =>
        /\ \A i \in DOMAIN lights_at_scan :
              LET e == lights_at_scan[i]
                  offs == {k \in TickOffs : sent[k].note = e.note}
              IN  IF e.expiry <= now
                  THEN Cardinality(offs) = 1 /\ e.note \notin Keys(active_lights)
                  ELSE offs = {} /\ e \in Range(active_lights)
        /\ \A k \in TickOffs : sent[k].note \in Keys(lights_at_scan)
        /\ \A e \in Range(active_lights) : e.expiry > now

\* the scan found one entry expiring exactly now and one expiring later
C12_Witness ==
    /\ pc = "pick"
    /\ \E e \in Range(lights_at_scan) : e.expiry = now
    /\ \E e \in Range(lights_at_scan) : e.expiry > now
    /\ Len(active_lights) = 1

\* C13: Tick ordering.  At the end of a tick that completed without error
\* the last message sent is the tick's one on-event, for the chosen pad and
\* color; every other message of the tick is an off-event and precedes it;
\* and the chosen pad is tracked with expiry now + LIGHT_DURATION (also when
\* it is a pad that expired in this very tick).
C13_TickOrdering ==
    pc = "sleep" =>
        /\ sent # <<>>
        /\ sent[Len(sent)] = [note |-> random_note,
                              velocity |-> random_velocity, at |-> now]
        /\ IsOn(sent[Len(sent)])
        /\ \A k \in 1..(Len(sent) - 1) : sent[k].at = now => IsOff(sent[k])
        /\ random_note \in Keys(active_lights)
        /\ \A e \in Range(active_lights) :
              e.note = random_note => e.expiry = now + LIGHT_DURATION

\* the chosen pad is one that expired, and was turned off, in this same tick
C13_Witness ==
    /\ pc = "sleep"
    /\ \E k \in TickOffs : sent[k].note = random_note

\* C14: No duplicate turn-offs inside the main loop.  The loop sends an
\* off-event only for a pad that is tracked, and the entry is gone when the
\* scan is over; so the message of the loop that precedes a loop off-event
\* for pad P, among those for P, is an on-event: at most one off-event
\* between two on-events for P, none before the first, none for a pad that
\* was never lit.
C14_NoDuplicateLoopOffs ==
    /\ pc \in {"clear", "del"} => Head(notes_to_clear) \in Keys(active_lights)
    /\ pc = "pick" => \A k \in TickOffs : sent[k].note \notin Keys(active_lights)
    /\ \A k \in 1..LoopEnd :
          IsOff(sent[k]) =>
              \E i \in 1..(k - 1) :
                  /\ IsOn(sent[i])
                  /\ sent[i].note = sent[k].note
                  /\ \A m \in (i + 1)..(k - 1) : sent[m].note # sent[k].note

\* the loop has turned a pad off while another pad was never lit and has got
\* no message from the loop
C14_Witness ==
    /\ \E k \in 1..LoopEnd : IsOff(sent[k])
    /\ \E p \in Range(PAD_NOTES) : \A k \in 1..LoopEnd : sent[k].note # p

\* C15: The off sentinel is outside the palette.  No color code of the
\* palette is 0; every message goes to a pad of PAD_NOTES; every on-event is
\* sent by the main loop with a color of the palette; every message of the
\* drain and every off-event of the expiry scan has velocity 0, and the
\* message sent for a rain drop has not.
C15_OffSentinelOutsidePalette ==
    /\ \A c \in Range(COLOR_VELOCITIES) : c > 0
    /\ \A k \in DOMAIN sent :
          /\ sent[k].note \in Range(PAD_NOTES)
          /\ IsOn(sent[k]) => /\ sent[k].velocity \in Range(COLOR_VELOCITIES)
                              /\ k <= LoopEnd
          /\ k > LoopEnd => IsOff(sent[k])
    /\ pc = "del" => IsOff(sent[Len(sent)])
    /\ pc = "track" => /\ IsOn(sent[Len(sent)])
                       /\ sent[Len(sent)].velocity = random_velocity

\* a completed drain after a run in which the loop lit a pad and turned a
\* pad off
C15_Witness ==
    /\ DrainCompleted
    /\ \E k \in 1..LoopEnd : IsOn(sent[k])
    /\ \E k \in 1..LoopEnd : IsOff(sent[k])

\* the last message sent for pad p is an on-event
LastMessageIsOn(p) ==
    \E k \in DOMAIN sent :
        /\ sent[k].note = p
        /\ IsOn(sent[k])
        /\ \A m \in (k + 1)..Len(sent) : sent[m].note # p

\* C16: Bookkeeping matches the hardware.  At every tick boundary (the loop
\* is at the start of an iteration or in its sleep) a pad is tracked in
\* active_lights if and only if the last message sent for it is an on-event.
C16_BookkeepingMatchesHardware ==
    pc \in {"scan", "sleep"} =>
        \A p \in Range(PAD_NOTES) :
            p \in Keys(active_lights) <=> LastMessageIsOn(p)

\* a tick boundary with one pad tracked and another turned off by the loop
C16_Witness ==
    /\ pc = "scan"
    /\ active_lights # <<>>
    /\ \E k \in DOMAIN sent :
          IsOff(sent[k]) /\ sent[k].note \notin Keys(active_lights)

\* C17: Frame of one tick.  During a tick active_lights only loses entries
\* that the scan found expired; at the end of the tick it differs from what
\* the scan found only by those removals and by the entry of the chosen pad:
\* every other tracked pad has the expiry it had.
C17_TickFrame ==
    /\ pc \in {"clear", "del", "pick", "light", "track"} =>
          /\ \A e \in Range(active_lights) : e \in Range(lights_at_scan)
          /\ \A e \in Range(lights_at_scan) :
                e.expiry > now => e \in Range(active_lights)
    /\ pc = "sleep" =>
          /\ \A e \in Range(lights_at_scan) :
                e.note # random_note =>
                    IF e.expiry <= now
                    THEN e.note \notin Keys(active_lights)
                    ELSE e \in Range(active_lights)
          /\ \A e \in Range(active_lights) :
                e.note = random_note \/ e \in Range(lights_at_scan)

\* the end of a tick that removed an expired entry and left the entry of a
\* pad other than the chosen one as it was
C17_Witness ==
    /\ pc = "sleep"
    /\ \E e \in Range(lights_at_scan) : e.expiry <= now
    /\ \E e \in Range(lights_at_scan) :
          e.note # random_note /\ e \in Range(active_lights)

\* C18: State is unchanged by a failed send in the main loop.  After a send
\* error active_lights is what the scan found minus the entries whose
\* off-event was sent in this tick: a failed off-send leaves the entry of
\* its pad and of the expired pads after it in place, a failed on-send
\* leaves the chosen pad untracked or with the expiry it had.
C18_FailedSendChangesNothing ==
    loopExit = "error" =>
        LET cleared == {sent[k].note : k \in {j \in 1..exitAt :
                            sent[j].at = now /\ IsOff(sent[j])}}
        IN  /\ active_lights =
                  SelectSeq(lights_at_scan, LAMBDA e : e.note \notin cleared)
            /\ \A i \in DOMAIN notes_to_clear :
                  /\ notes_to_clear[i] \in Keys(active_lights)
                  /\ notes_to_clear[i] \notin cleared
            /\ notes_to_clear = <<>> =>
                  \A e \in Range(active_lights) :
                      e.note = random_note =>
                          e \in Range(lights_at_scan) /\ e.expiry > now

\* the off-send for the first of two expired pads has failed
C18_Witness ==
    /\ loopExit = "error"
    /\ Len(notes_to_clear) = 2
    /\ Len(active_lights) = 2

\* C19: Once opened the port is closed on every exit path: the program never
\* ends with the port open; the port is closed only by the last step of the
\* program, after which nothing is sent; and every send (expiry scan, rain
\* drop, drain) happens while the port is open.
C19_PortClosedOnEveryExit ==
    /\ pc = "done" => port \in {"none", "closed"}
    /\ port = "closed" => pc = "done"
    /\ port = "none" => sent = <<>>
    /\ pc \in LoopPcs \cup {"drain"} => port = "open"

\* the program has ended with the port closed after a failure of the drain
\* that followed an interrupt of the loop
C19_Witness ==
    /\ pc = "done"
    /\ port = "closed"
    /\ loopExit = "interrupt"
    /\ "An unexpected error occurred during setup" \in reports

\* C20: With INTERVAL_SECONDS = 50 ms between ticks and LIGHT_DURATION =
\* 500 ms, active_lights never tracks more than LIGHT_DURATION /
\* INTERVAL_SECONDS = 10 pads, so never all 16 pads of PAD_NOTES at once.
C20_AtMostTenTracked ==
    /\ LIGHT_DURATION \div INTERVAL_SECONDS = 10
    /\ Len(active_lights) <= LIGHT_DURATION \div INTERVAL_SECONDS
    /\ Cardinality(Keys(active_lights)) <= 10
    /\ Keys(active_lights) # Range(PAD_NOTES)

\* ten pads are tracked at the end of the eleventh tick, whose scan turned
\* off the pad lit by the first tick
C20_Witness ==
    /\ pc = "sleep"
    /\ ticks = 11
    /\ now = LIGHT_DURATION
    /\ Len(active_lights) = 10
    /\ \E k \in TickOffs : sent[k].note = PAD_NOTES[1]
====
